---- MODULE Spec2Model ----
(***************************************************************************)
(* Model of the point_index crate (src/src/lib.rs): the Point coordinate   *)
(* type with its arithmetic, the Index/IndexMut/Get/Set access layer over  *)
(* Vec<Vec<A>> and [[A; INNER]; OUTER], and the enumerate_iter traversal.  *)
(*                                                                         *)
(* Three specifications share the variables:                               *)
(*   SpecArith  Point::new, Point::new_isize, Add, Sub, Mul<isize>         *)
(*   Spec       index, index_mut, get_option, get_mut_option, set          *)
(*   SpecIter   enumerate_iter_vec / enumerate_iter_arr, driven by next()  *)
(***************************************************************************)
EXTENDS Integers, Sequences, FiniteSets, TLC

\* ---------------------------------------------------------------- bounds
\* Width in bits of isize / usize in the model (64 on the usual host).
W == 3
\* Largest number of rows and of columns of a grid, largest element value.
MaxRows == 2
MaxCols == 3
MaxVal == 1
\* Side of the square array of the crate-level mutation example (10 there).
DocN == 3

VARIABLES debug_build, kind, grid, last, prev, iter, out

vars == <<debug_build, kind, grid, last, prev, iter, out>>

\* ------------------------------------------------------- integers, Option
ISIZE_MIN == -(2^(W-1))
ISIZE_MAX == 2^(W-1) - 1
USIZE_MAX == 2^W - 1
Isize == ISIZE_MIN..ISIZE_MAX
Usize == 0..USIZE_MAX

None == <<>>
Some(v) == <<v>>

Min(a, b) == IF a < b THEN a ELSE b

\* Two's complement reduction of an integer into isize.
WrapIsize(n) == ((n - ISIZE_MIN) % (2^W)) - (2^(W-1))

\* `usize as isize`: a cast, reinterpreting the bits.
AsIsize(u) == IF u > ISIZE_MAX THEN u - 2^W ELSE u

\* Native isize `+`, `-`, `*` on the mathematical result n: a result out of
\* range panics when overflow detection is compiled in (debug profile) and
\* wraps otherwise (release profile).
Arith(n, dbg) ==
  IF n \in Isize THEN Some(n)
  ELSE IF dbg THEN None
  ELSE Some(WrapIsize(n))

\* ------------------------------------------------------------------ Point
Point == [x : Isize, y : Isize]

Pt(x, y) == [x |-> x, y |-> y]

UP == Pt(0, -1)
DOWN == Pt(0, 1)
LEFT == Pt(-1, 0)
RIGHT == Pt(1, 0)
UP_LEFT == Pt(-1, -1)
UP_RIGHT == Pt(1, -1)
DOWN_LEFT == Pt(-1, 1)
DOWN_RIGHT == Pt(1, 1)

Ok(v) == [outcome |-> "ok", ret |-> Some(v)]
Panic == [outcome |-> "panic", ret |-> None]

\* Point::new(x: usize, y: usize)
NewFn(x, y) == Ok(Pt(AsIsize(x), AsIsize(y)))

\* Point::new_isize(x: isize, y: isize)
NewIsizeFn(x, y) == Ok(Pt(x, y))

\* Builds the point of two component results, or panics if one panicked.
Both(rx, ry) == IF rx = None \/ ry = None THEN Panic ELSE Ok(Pt(rx[1], ry[1]))

AddFn_MixedComponents(self, other, dbg) ==
  Both(Arith(self.x + other.x, dbg), Arith(self.y + other.x, dbg))

\* <Point as Add>::add
AddFn(self, other, dbg) ==
  Both(Arith(self.x + other.x, dbg), Arith(self.y + other.y, dbg))

SubFn_Reversed(self, other, dbg) ==
  Both(Arith(other.x - self.x, dbg), Arith(other.y - self.y, dbg))

\* <Point as Sub>::sub
SubFn(self, other, dbg) ==
  Both(Arith(self.x - other.x, dbg), Arith(self.y - other.y, dbg))

\* <Point as Mul<isize>>::mul
MulFn(self, other, dbg) ==
  Both(Arith(self.x * other, dbg), Arith(self.y * other, dbg))

\* ------------------------------------------------------------- grid access
\* Result of one access: what the call returns (or that it panicked), the
\* grid afterwards, and the storage location (row, column) it reached.
Absent(g) == [outcome |-> "ok", ret |-> None, grid |-> g, cell |-> None]
Aborted(g) == [outcome |-> "panic", ret |-> None, grid |-> g, cell |-> None]
Found(g, y, x, e) ==
  [outcome |-> "ok", ret |-> Some(e), grid |-> g, cell |-> Some(<<y, x>>)]

TryIntoUsize_OrDefault(i) == IF i >= 0 THEN Some(i) ELSE Some(0)

\* isize -> usize `try_into()`: Err exactly for a negative value (every
\* non-negative isize fits usize).
TryIntoUsize(i) == IF i >= 0 THEN Some(i) ELSE None

\* slice/Vec `get(i)` and `get_mut(i)`, 0-based.
SliceGet(s, i) == IF i < Len(s) THEN Some(s[i + 1]) ELSE None

\* mem::replace(location, value) / assignment through `&mut self[y][x]`.
Replace(g, y, x, value) == [g EXCEPT ![y + 1][x + 1] = value]

GetOptionFn_Transposed(g, point) ==
  LET x == TryIntoUsize(point.x)
      y == TryIntoUsize(point.y)
  IN IF x = None THEN Absent(g)
     ELSE IF y = None THEN Absent(g)
     ELSE LET row == SliceGet(g, x[1])
          IN IF row = None THEN Absent(g)
             ELSE LET e == SliceGet(row[1], y[1])
                  IN IF e = None THEN Absent(g)
                     ELSE Found(g, x[1], y[1], e[1])

\* Get::get_option
GetOptionFn(g, point) ==
  LET x == TryIntoUsize(point.x)
      y == TryIntoUsize(point.y)
  IN IF x = None THEN Absent(g)
     ELSE IF y = None THEN Absent(g)
     ELSE LET row == SliceGet(g, y[1])
          IN IF row = None THEN Absent(g)
             ELSE LET e == SliceGet(row[1], x[1])
                  IN IF e = None THEN Absent(g)
                     ELSE Found(g, y[1], x[1], e[1])

\* Get::get_mut_option: the returned `&mut` is the location `cell`.
GetMutOptionFn(g, point) ==
  LET x == TryIntoUsize(point.x)
      y == TryIntoUsize(point.y)
  IN IF x = None THEN Absent(g)
     ELSE IF y = None THEN Absent(g)
     ELSE LET row == SliceGet(g, y[1])
          IN IF row = None THEN Absent(g)
             ELSE LET e == SliceGet(row[1], x[1])
                  IN IF e = None THEN Absent(g)
                     ELSE Found(g, y[1], x[1], e[1])

SetFn_Transposed(g, point, value) ==
  LET x == TryIntoUsize(point.x)
      y == TryIntoUsize(point.y)
  IN IF x = None THEN Absent(g)
     ELSE IF y = None THEN Absent(g)
     ELSE LET inner == SliceGet(g, x[1])
          IN IF inner = None THEN Absent(g)
             ELSE LET location == SliceGet(inner[1], y[1])
                  IN IF location = None THEN Absent(g)
                     ELSE Found(Replace(g, x[1], y[1], value),
                                x[1], y[1], location[1])

SetFn_ReturnsNew(g, point, value) ==
  LET x == TryIntoUsize(point.x)
      y == TryIntoUsize(point.y)
  IN IF x = None THEN Absent(g)
     ELSE IF y = None THEN Absent(g)
     ELSE LET inner == SliceGet(g, y[1])
          IN IF inner = None THEN Absent(g)
             ELSE LET location == SliceGet(inner[1], x[1])
                  IN IF location = None THEN Absent(g)
                     ELSE Found(Replace(g, y[1], x[1], value),
                                y[1], x[1], value)

\* Set::set
SetFn(g, point, value) ==
  LET x == TryIntoUsize(point.x)
      y == TryIntoUsize(point.y)
  IN IF x = None THEN Absent(g)
     ELSE IF y = None THEN Absent(g)
     ELSE LET inner == SliceGet(g, y[1])
          IN IF inner = None THEN Absent(g)
             ELSE LET location == SliceGet(inner[1], x[1])
                  IN IF location = None THEN Absent(g)
                     ELSE Found(Replace(g, y[1], x[1], value),
                                y[1], x[1], location[1])

IndexFn_UnwrapOrDefault(g, index) ==
  LET x == IF index.x >= 0 THEN index.x ELSE 0
      y == IF index.y >= 0 THEN index.y ELSE 0
  IN IF ~(y < Len(g)) THEN Aborted(g)
     ELSE IF ~(x < Len(g[y + 1])) THEN Aborted(g)
     ELSE Found(g, y, x, g[y + 1][x + 1])

\* Index<Point>::index: `unwrap()` panics on Err, `self[y][x]` panics when
\* an index is not below the length.
IndexFn(g, index) ==
  LET x == TryIntoUsize(index.x)
      y == TryIntoUsize(index.y)
  IN IF x = None THEN Aborted(g)
     ELSE IF y = None THEN Aborted(g)
     ELSE IF ~(y[1] < Len(g)) THEN Aborted(g)
     ELSE IF ~(x[1] < Len(g[y[1] + 1])) THEN Aborted(g)
     ELSE Found(g, y[1], x[1], g[y[1] + 1][x[1] + 1])

IndexMutFn_Transposed(g, index) ==
  LET x == TryIntoUsize(index.x)
      y == TryIntoUsize(index.y)
  IN IF x = None THEN Aborted(g)
     ELSE IF y = None THEN Aborted(g)
     ELSE IF ~(x[1] < Len(g)) THEN Aborted(g)
     ELSE IF ~(y[1] < Len(g[x[1] + 1])) THEN Aborted(g)
     ELSE Found(g, x[1], y[1], g[x[1] + 1][y[1] + 1])

\* IndexMut<Point>::index_mut: the returned `&mut` is the location `cell`.
IndexMutFn(g, index) ==
  LET x == TryIntoUsize(index.x)
      y == TryIntoUsize(index.y)
  IN IF x = None THEN Aborted(g)
     ELSE IF y = None THEN Aborted(g)
     ELSE IF ~(y[1] < Len(g)) THEN Aborted(g)
     ELSE IF ~(x[1] < Len(g[y[1] + 1])) THEN Aborted(g)
     ELSE Found(g, y[1], x[1], g[y[1] + 1][x[1] + 1])

\* `grid[index] = value`: index_mut, then the store through its result.
IndexAssignFn(g, index, value) ==
  LET r == IndexMutFn(g, index)
  IN IF r.outcome = "panic" THEN r
     ELSE [r EXCEPT !.grid = Replace(g, r.cell[1][1], r.cell[1][2], value),
                    !.ret = None]

\* --------------------------------------------------------------- traversal
\* State of the boxed FlatMap iterator: `outer` is the count of the outer
\* Enumerate (rows already pulled), `front` the inner iterator in progress,
\* holding the row number y captured by the closure and its own count x.
IterStart == [outer |-> 0, front |-> None]

RECURSIVE FlatMapNext(_, _)
FlatMapNext_StopsAtEmptyRow(g, it) ==
  IF it.front # None
  THEN LET f == it.front[1]
       IN IF f.x < Len(g[f.y + 1])
          THEN [it |-> [it EXCEPT !.front = Some([f EXCEPT !.x = f.x + 1])],
                item |-> Some(<<NewFn(f.x, f.y).ret[1], g[f.y + 1][f.x + 1]>>)]
          ELSE [it |-> [it EXCEPT !.front = None], item |-> None]
  ELSE IF it.outer < Len(g)
       THEN FlatMapNext(g, [outer |-> it.outer + 1,
                            front |-> Some([y |-> it.outer, x |-> 0])])
       ELSE [it |-> it, item |-> None]

\* One call of next() on the iterator of enumerate_iter_vec/_arr.
FlatMapNext(g, it) ==
  IF it.front # None
  THEN LET f == it.front[1]
       IN IF f.x < Len(g[f.y + 1])
          THEN [it |-> [it EXCEPT !.front = Some([f EXCEPT !.x = f.x + 1])],
                item |-> Some(<<NewFn(f.x, f.y).ret[1], g[f.y + 1][f.x + 1]>>)]
          ELSE FlatMapNext(g, [it EXCEPT !.front = None])
  ELSE IF it.outer < Len(g)
       THEN FlatMapNext(g, [outer |-> it.outer + 1,
                            front |-> Some([y |-> it.outer, x |-> 0])])
       ELSE [it |-> it, item |-> None]

\* ------------------------------------------------------------ state spaces
\* Values the callers write.
Values == 0..MaxVal

\* A Vec or array of a sized element type holds at most isize::MAX elements.
Lens(max) == 0..Min(max, ISIZE_MAX)

\* The grid with the given row lengths whose cells hold pairwise distinct
\* elements, numbered as in the crate-level example [[0,1,2],[3,4,5],[6,7,8]].
GridOfShape(lens) ==
  [r \in 1..Len(lens) |-> [n \in 1..lens[r] |-> (r - 1) * MaxCols + (n - 1)]]

\* Vec<Vec<A>>: every row has its own length.
VecGrids ==
  {GridOfShape(lens) :
     lens \in UNION {[1..r -> Lens(MaxCols)] : r \in Lens(MaxRows)}}

\* [[A; INNER]; OUTER]: all rows have the length INNER.
ArrGrids ==
  {GridOfShape([r \in 1..outer |-> inner]) :
     outer \in Lens(MaxRows), inner \in Lens(MaxCols)}

GridsOf(k) == IF k = "vec" THEN VecGrids ELSE ArrGrids

\* The Vec of the crate-level access example.
DocVec == <<<<0, 1, 2>>, <<3, 4, 5>>, <<6, 7, 8>>>>

\* The zeroed array of the crate-level mutation example.
DocArr == [y \in 1..DocN |-> [x \in 1..DocN |-> 0]]

NoCall(op, g) ==
  [op |-> op, g |-> g, c |-> Pt(0, 0), v |-> None,
   outcome |-> "ok", ret |-> None, cell |-> None]

Call(op, g, c, v, r) ==
  [op |-> op, g |-> g, c |-> c, v |-> v,
   outcome |-> r.outcome, ret |-> r.ret, cell |-> r.cell]

\* ------------------------------------------------------ SpecArith: actions
\* The crate keeps no state between calls, so a behaviour is one call on
\* freshly drawn operands, followed at most by the call that continues it.
InitArith ==
  /\ debug_build \in BOOLEAN
  /\ kind = "vec"
  /\ grid = <<>>
  /\ last = [op |-> "init", outcome |-> "ok"]
  /\ prev = None
  /\ iter = None
  /\ out = <<>>

ArithStep(rec) ==
  /\ last' = rec
  /\ UNCHANGED <<debug_build, kind, grid, iter, out>>

New ==
  /\ last.op = "init"
  /\ \E x \in Usize, y \in Usize :
       LET r == NewFn(x, y)
       IN ArithStep([op |-> "new", a |-> Pt(x, y), b |-> Pt(0, 0), k |-> 0,
                     outcome |-> r.outcome, ret |-> r.ret])
  /\ prev' = None

NewIsize ==
  /\ last.op = "init"
  /\ \E x \in Isize, y \in Isize :
       LET r == NewIsizeFn(x, y)
       IN ArithStep([op |-> "new_isize", a |-> Pt(x, y), b |-> Pt(0, 0),
                     k |-> 0, outcome |-> r.outcome, ret |-> r.ret])
  /\ prev' = None

Add ==
  /\ last.op = "init"
  /\ \E a \in Point, b \in Point :
       LET r == AddFn(a, b, debug_build)
       IN ArithStep([op |-> "add", a |-> a, b |-> b, k |-> 0,
                     outcome |-> r.outcome, ret |-> r.ret])
  /\ prev' = None

Sub ==
  /\ last.op = "init"
  /\ \E a \in Point, b \in Point :
       LET r == SubFn(a, b, debug_build)
       IN ArithStep([op |-> "sub", a |-> a, b |-> b, k |-> 0,
                     outcome |-> r.outcome, ret |-> r.ret])
  /\ prev' = None

\* `a + b - b`: the subtraction takes the sum just computed and the same b;
\* `prev` keeps the addition.
SubAfterAdd ==
  /\ last.op = "add"
  /\ last.outcome = "ok"
  /\ LET r == SubFn(last.ret[1], last.b, debug_build)
     IN ArithStep([op |-> "sub", a |-> last.ret[1], b |-> last.b, k |-> 0,
                   outcome |-> r.outcome, ret |-> r.ret])
  /\ prev' = Some(last)

Mul ==
  /\ last.op = "init"
  /\ \E a \in Point, k \in Isize :
       LET r == MulFn(a, k, debug_build)
       IN ArithStep([op |-> "mul", a |-> a, b |-> Pt(0, 0), k |-> k,
                     outcome |-> r.outcome, ret |-> r.ret])
  /\ prev' = None

NextArith == New \/ NewIsize \/ Add \/ Sub \/ SubAfterAdd \/ Mul

SpecArith == InitArith /\ [][NextArith]_vars

\* ------------------------------------------------------ SpecArith: properties
IsArith == last.op \in {"add", "sub", "mul"}

\* The componentwise results over the unbounded integers.
ExactX ==
  CASE last.op = "add" -> last.a.x + last.b.x
    [] last.op = "sub" -> last.a.x - last.b.x
    [] last.op = "mul" -> last.a.x * last.k

ExactY ==
  CASE last.op = "add" -> last.a.y + last.b.y
    [] last.op = "sub" -> last.a.y - last.b.y
    [] last.op = "mul" -> last.a.y * last.k

\* The representative of n modulo 2^W in the signed range.
Mod2W(n) == CHOOSE r \in Isize : (r - n) % (2^W) = 0

Overflows == ~(ExactX \in Isize /\ ExactY \in Isize)

\* C8 as stated: add, subtract and scale never fail, and return the
\* componentwise result reduced modulo 2^W.
C8_TotalAndWrapping ==
  IsArith =>
    /\ last.outcome = "ok"
    /\ last.ret = Some(Pt(Mod2W(ExactX), Mod2W(ExactY)))

\* C8 amended: add, subtract and scale return the exact componentwise result
\* whenever both components stay in the signed range; when one leaves it,
\* a build without overflow detection returns the components reduced modulo
\* 2^W and a build with overflow detection panics.
C8_WrapsOrPanicsByBuild ==
  IsArith =>
    IF ~Overflows
    THEN last.outcome = "ok" /\ last.ret = Some(Pt(ExactX, ExactY))
    ELSE IF debug_build
         THEN last.outcome = "panic" /\ last.ret = None
         ELSE /\ last.outcome = "ok"
              /\ last.ret = Some(Pt(Mod2W(ExactX), Mod2W(ExactY)))

C8_Witness ==
  /\ last.op = "add"
  /\ last.a.y + last.b.y > ISIZE_MAX
  /\ ~debug_build
  /\ last.outcome = "ok"
  /\ last.ret[1].y < 0

\* C9 as stated: (a + b) - b equals a for all a and b, also when the sum of
\* a component leaves the signed range.
C9_AddSubRoundTripAlways ==
  last.op = "add" =>
    /\ last.outcome = "ok"
    /\ SubFn(last.ret[1], last.b, debug_build) = Ok(last.a)

\* C9 amended: whenever a + b returns a coordinate, (a + b) - b returns a
\* coordinate equal to a in both components; this includes the sums that
\* wrapped in a build without overflow detection, while in a build with
\* overflow detection a + b panics when a component sum leaves the range.
C9_AddSubRoundTrip ==
  (last.op = "sub" /\ prev # None /\ prev[1].op = "add") =>
    /\ last.a = prev[1].ret[1]
    /\ last.b = prev[1].b
    /\ last.outcome = "ok"
    /\ last.ret = Some(prev[1].a)

C9_Witness ==
  /\ last.op = "sub"
  /\ prev # None
  /\ prev[1].op = "add"
  /\ prev[1].a.x + prev[1].b.x > ISIZE_MAX
  /\ last.ret = Some(prev[1].a)

\* C10: Point::new(x, y) fails when x or y is above the largest isize, never
\* returns a wrapped negative component, and returns exactly (x, y) when both
\* are representable.
C10_NewRejectsUnrepresentable ==
  last.op = "new" =>
    IF last.a.x > ISIZE_MAX \/ last.a.y > ISIZE_MAX
    THEN last.outcome = "panic"
    ELSE last.outcome = "ok" /\ last.ret = Some(last.a)

\* ----------------------------------------------------------- Spec: actions
\* A behaviour is one access to a freshly drawn grid, followed at most by one
\* access to the coordinate just written (`prev` keeps the write), or the
\* loop of the crate-level mutation example.
InitGrid ==
  /\ debug_build \in BOOLEAN
  /\ kind \in {"vec", "arr"}
  /\ grid \in GridsOf(kind)
  /\ last = NoCall("init", grid)
  /\ prev = None
  /\ iter = None
  /\ out = <<>>

InitDoc ==
  /\ debug_build \in BOOLEAN
  /\ kind = "arr"
  /\ grid = DocArr
  /\ last = NoCall("doc_start", grid)
  /\ prev = None
  /\ iter = None
  /\ out = <<>>

Init == InitGrid \/ InitDoc

Wrote ==
  /\ last.op \in {"set", "index_mut"}
  /\ last.outcome = "ok"
  /\ last.cell # None

\* The coordinates the next access may take: any on a fresh grid, the one
\* just written after a write.
Targets ==
  IF last.op = "init" THEN Point
  ELSE IF Wrote /\ prev = None THEN {last.c}
  ELSE {}

Access(op, c, v, r) ==
  /\ last' = Call(op, grid, c, v, r)
  /\ grid' = r.grid
  /\ prev' = IF last.op = "init" THEN None ELSE Some(last)
  /\ UNCHANGED <<debug_build, kind, iter, out>>

GetOption ==
  /\ last.outcome = "ok"
  /\ \E c \in Targets : Access("get_option", c, None, GetOptionFn(grid, c))

GetMutOption ==
  /\ last.outcome = "ok"
  /\ \E c \in Targets :
       Access("get_mut_option", c, None, GetMutOptionFn(grid, c))

Set ==
  /\ last.outcome = "ok"
  /\ \E c \in Targets, v \in Values :
       Access("set", c, Some(v), SetFn(grid, c, v))

Index ==
  /\ last.outcome = "ok"
  /\ \E c \in Targets : Access("index", c, None, IndexFn(grid, c))

IndexMut ==
  /\ last.outcome = "ok"
  /\ \E c \in Targets, v \in Values :
       Access("index_mut", c, Some(v), IndexAssignFn(grid, c, v))

\* Body of `for x in 0 .. 10 { arr[DOWN_RIGHT * x] = x }`.
DocWrite ==
  LET x == IF last.op = "doc_start" THEN 0 ELSE last.v[1] + 1
      m == MulFn(DOWN_RIGHT, x, debug_build)
  IN /\ last.op \in {"doc_start", "doc_write"}
     /\ last.outcome = "ok"
     /\ x < DocN
     /\ IF m.outcome = "panic"
        THEN /\ last' = Call("doc_write", grid, DOWN_RIGHT, Some(x), Aborted(grid))
             /\ grid' = grid
        ELSE LET r == IndexAssignFn(grid, m.ret[1], x)
             IN /\ last' = Call("doc_write", grid, m.ret[1], Some(x), r)
                /\ grid' = r.grid
     /\ UNCHANGED <<debug_build, kind, prev, iter, out>>

Next == GetOption \/ GetMutOption \/ Set \/ Index \/ IndexMut \/ DocWrite

Spec == Init /\ [][Next]_vars

\* ------------------------------------------------------- SpecIter: actions
InitIter ==
  /\ debug_build \in BOOLEAN
  /\ kind \in {"vec", "arr"}
  /\ grid \in GridsOf(kind) \cup (IF kind = "vec" THEN {DocVec} ELSE {})
  /\ last = NoCall("init", grid)
  /\ prev = None
  /\ iter = None
  /\ out = <<>>

\* enumerate_iter_vec / enumerate_iter_arr: the grid moves into the iterator.
EnumerateIter ==
  /\ last.op = "init"
  /\ iter' = Some(IterStart)
  /\ last' = NoCall("enumerate_iter", grid)
  /\ UNCHANGED <<debug_build, kind, grid, prev, out>>

\* The consumer calls next(); `out` collects the pairs yielded so far.
IterNext ==
  /\ iter # None
  /\ LET r == FlatMapNext(grid, iter[1])
     IN /\ iter' = Some(r.it)
        /\ out' = IF r.item = None THEN out ELSE Append(out, r.item[1])
        /\ last' = [NoCall("next", grid) EXCEPT !.ret = r.item]
  /\ UNCHANGED <<debug_build, kind, grid, prev>>

NextIter == EnumerateIter \/ IterNext

SpecIter == InitIter /\ [][NextIter]_vars

\* ------------------------------------------------------------ Spec: properties
InBounds(g, c) ==
  /\ c.y >= 0
  /\ c.y < Len(g)
  /\ c.x >= 0
  /\ c.x < Len(g[c.y + 1])

\* A component at or above its extent: the row number at or above the row
\* count, or the column number at or above the length of the row it names.
TooLarge(g, c) ==
  \/ c.y >= Len(g)
  \/ (c.y >= 0 /\ c.y < Len(g) /\ c.x >= Len(g[c.y + 1]))

Elem(g, c) == g[c.y + 1][c.x + 1]

SameShape(g, h) ==
  /\ Len(g) = Len(h)
  /\ \A r \in 1..Len(g) : Len(g[r]) = Len(h[r])

\* g and h have the same shape and differ at most in the cell of c.
SameExceptAt(g, h, c) ==
  /\ SameShape(g, h)
  /\ \A r \in 1..Len(g) : \A n \in 1..Len(g[r]) :
       (r # c.y + 1 \/ n # c.x + 1) => g[r][n] = h[r][n]

IsSafeOp == last.op \in {"get_option", "get_mut_option", "set"}

\* C1: with a negative component, get_option, get_mut_option and set return
\* absence, do not panic, reach no cell and leave the grid as it was.
C1_NegativeIsAbsent ==
  (IsSafeOp /\ (last.c.x < 0 \/ last.c.y < 0)) =>
    /\ last.outcome = "ok"
    /\ last.ret = None
    /\ last.cell = None
    /\ grid = last.g

C1_Witness ==
  /\ last.op = "set"
  /\ last.c.x < 0
  /\ last.c.y = 0
  /\ InBounds(last.g, Pt(0, 0))
  /\ last.ret = None
  /\ grid = last.g

\* C2: at an in-bounds coordinate get_option returns the present element of
\* row c.y, column c.x, and the indexed read g[c] returns the same element.
C2_GetMatchesIndex ==
  /\ (last.op = "get_option" /\ InBounds(last.g, last.c)) =>
       /\ last.outcome = "ok"
       /\ last.ret = Some(Elem(last.g, last.c))
       /\ last.cell = Some(<<last.c.y, last.c.x>>)
       /\ IndexFn(last.g, last.c).outcome = "ok"
       /\ IndexFn(last.g, last.c).ret = last.ret
  /\ (last.op = "index" /\ InBounds(last.g, last.c)) =>
       /\ last.outcome = "ok"
       /\ last.ret = Some(Elem(last.g, last.c))
       /\ GetOptionFn(last.g, last.c).ret = last.ret

C2_Witness ==
  /\ last.op = "get_option"
  /\ InBounds(last.g, last.c)
  /\ last.c.x # last.c.y
  /\ last.ret = Some(Elem(last.g, last.c))

\* C3: with a component at or above its extent (for a ragged grid, the
\* length of the row c.y itself), get_option, get_mut_option and set return
\* absence and the grid afterwards equals the grid before.
C3_TooLargeIsAbsent ==
  (IsSafeOp /\ TooLarge(last.g, last.c)) =>
    /\ last.outcome = "ok"
    /\ last.ret = None
    /\ last.cell = None
    /\ grid = last.g

\* A ragged grid: column 1 exists in row 1 and not in row 0.
C3_Witness ==
  /\ last.op = "set"
  /\ kind = "vec"
  /\ Len(last.g) = 2
  /\ Len(last.g[1]) = 1
  /\ Len(last.g[2]) = 2
  /\ last.c = Pt(1, 0)
  /\ last.ret = None
  /\ grid = last.g

\* C4: set at an in-bounds coordinate returns the element stored there
\* before and stores v; a following get_option there returns v; a following
\* set of the old element there returns v and restores the original grid.
C4_SetRoundTrip ==
  /\ (last.op = "set" /\ InBounds(last.g, last.c)) =>
       /\ last.outcome = "ok"
       /\ last.ret = Some(Elem(last.g, last.c))
       /\ Elem(grid, last.c) = last.v[1]
       /\ SameExceptAt(grid, last.g, last.c)
  /\ (prev # None /\ prev[1].op = "set" /\ last.op = "get_option") =>
       /\ last.c = prev[1].c
       /\ last.g = [prev[1].g EXCEPT ![last.c.y + 1][last.c.x + 1] = prev[1].v[1]]
       /\ last.ret = prev[1].v
  /\ (prev # None /\ prev[1].op = "set" /\ last.op = "set"
        /\ last.v = prev[1].ret) =>
       /\ last.c = prev[1].c
       /\ last.ret = prev[1].v
       /\ grid = prev[1].g

C4_Witness ==
  /\ prev # None
  /\ prev[1].op = "set"
  /\ last.op = "set"
  /\ last.v = prev[1].ret
  /\ prev[1].v # prev[1].ret
  /\ last.ret = prev[1].v
  /\ grid = prev[1].g

IsIndexOp == last.op \in {"index", "index_mut"}

\* C6: at a coordinate that is not in bounds the indexed read and the
\* indexed write panic, return nothing and leave every cell as it was.
C6_IndexPanicsOutOfBounds ==
  (IsIndexOp /\ ~InBounds(last.g, last.c)) =>
    /\ last.outcome = "panic"
    /\ last.ret = None
    /\ last.cell = None
    /\ grid = last.g

C6_Witness ==
  /\ last.op = "index"
  /\ last.c.x < 0
  /\ last.c.y = 0
  /\ InBounds(last.g, Pt(0, 0))
  /\ last.outcome = "panic"

\* The array the crate-level mutation example asserts: x at (x, x), 0
\* elsewhere.
DocDiagonal ==
  [r \in 1..DocN |-> [n \in 1..DocN |-> IF r = n THEN r - 1 ELSE 0]]

\* C7: after g[c] = v at an in-bounds c the cell of c holds v, every other
\* cell, the row count and the row lengths are as before, and a following
\* read g[c] returns v; the loop writing x at DOWN_RIGHT * x ends with x at
\* (x, x) and 0 elsewhere.
C7_IndexWriteFrame ==
  /\ (last.op = "index_mut" /\ InBounds(last.g, last.c)) =>
       /\ last.outcome = "ok"
       /\ Elem(grid, last.c) = last.v[1]
       /\ SameExceptAt(grid, last.g, last.c)
  /\ (prev # None /\ prev[1].op = "index_mut" /\ last.op = "index") =>
       /\ last.c = prev[1].c
       /\ last.outcome = "ok"
       /\ last.ret = prev[1].v
  /\ last.op = "doc_write" =>
       /\ last.outcome = "ok"
       /\ last.c = Pt(last.v[1], last.v[1])
       /\ (last.v[1] = DocN - 1 => grid = DocDiagonal)

C7_Witness ==
  /\ prev # None
  /\ prev[1].op = "index_mut"
  /\ last.op = "index"
  /\ last.c.x # last.c.y
  /\ prev[1].v # Some(Elem(prev[1].g, last.c))
  /\ last.ret = prev[1].v

\* ------------------------------------------------------- SpecIter: properties
CellsOf(g) ==
  UNION {{Pt(n - 1, r - 1) : n \in 1..Len(g[r])} : r \in 1..Len(g)}

RowMajorBefore(p, q) == p.y < q.y \/ (p.y = q.y /\ p.x < q.x)

Exhausted == last.op = "next" /\ last.ret = None

\* C5: the traversal yields only pairs ((x, y), e) with e the element of row
\* y, column x of the grid, in strictly increasing row-major order (so no
\* cell twice and never more pairs than cells), and once next() returns
\* nothing every cell has been yielded; for [[0,1,2],[3,4,5],[6,7,8]] these
\* are the nine pairs ((0,0),0) ... ((2,2),8) in that order.
C5_TraversalRowMajor ==
  /\ \A i \in 1..Len(out) :
       /\ out[i][1] \in CellsOf(grid)
       /\ out[i][2] = Elem(grid, out[i][1])
  /\ \A i \in 1..Len(out) : \A j \in 1..Len(out) :
       i < j => RowMajorBefore(out[i][1], out[j][1])
  /\ Len(out) <= Cardinality(CellsOf(grid))
  /\ (last.op = "next" /\ last.ret # None) => out[Len(out)] = last.ret[1]
  /\ Exhausted => \A p \in CellsOf(grid) : \E i \in 1..Len(out) : out[i][1] = p
  /\ (Exhausted /\ grid = DocVec) =>
       out = << <<Pt(0, 0), 0>>, <<Pt(1, 0), 1>>, <<Pt(2, 0), 2>>,
                <<Pt(0, 1), 3>>, <<Pt(1, 1), 4>>, <<Pt(2, 1), 5>>,
                <<Pt(0, 2), 6>>, <<Pt(1, 2), 7>>, <<Pt(2, 2), 8>> >>

\* A ragged Vec whose first row is empty, traversed to the end.
C5_Witness ==
  /\ Exhausted
  /\ kind = "vec"
  /\ Len(grid) = 2
  /\ Len(grid[1]) = 0
  /\ Len(grid[2]) = 2
  /\ Len(out) = 2

====
